---- MODULE Spec2Model ----
(***************************************************************************)
(* usys: the micro system time base of src/src/usystime.c.                 *)
(*                                                                         *)
(* The interrupt handler SysTick_Callback is one atomic action: the single *)
(* foreground context cannot preempt it.  The foreground functions whose   *)
(* body makes more than one access to the shared data (service_add, time)  *)
(* are split at the point where the interrupt can fall between the two     *)
(* accesses; pc and reg hold the foreground's position and locals.         *)
(*                                                                         *)
(* clock_t (unsigned long) and sclock_t (long) are scaled down to TickBits *)
(* bits, the cron table to USYS_CRONTAB_ENTRIES slots.                     *)
(***************************************************************************)
EXTENDS Integers, Sequences, FiniteSets, TLC

\* ------------------------------------------------------------- bounds
\* width of clock_t / sclock_t in the state machine
TickBits == 3
\* width at which the difference macros are checked exhaustively
DiffBits == 8
\* number of cron slots (10 in usystime.h, scaled down)
USYS_CRONTAB_ENTRIES == 2
\* dispatcher invocations explored beyond one full wrap of the tick counter
ExtraTicks == 4

NULL == "NULL"

Mod == 2 ^ TickBits
CLOCK_T_MAX_VALUE == Mod - 1
SCLOCK_T_MAX_VALUE == (2 ^ (TickBits - 1)) - 1
SCLOCK_T_MIN_VALUE == 0 - (2 ^ (TickBits - 1))
MaxIsr == Mod + ExtraTicks

Slots == 0 .. (USYS_CRONTAB_ENTRIES - 1)

\* callbacks that return and touch none of the usys state
PlainFuns == {"cbA", "cbB"}
\* a callback that calls setclock(0) from inside the dispatcher
ClockFuns == {"cbSetclock"}
\* a callback that never returns
HangFuns == {"cbHang"}
\* tick periods passed to service_add (never 0: the caller's precondition)
TicArgs == {2, 3}
\* values get_freq() may return (ticks per second, fixed by the timer driver)
FreqSet == {2, 3}
\* values passed to setclock and to setsclock
ClockArgs == {0, CLOCK_T_MAX_VALUE}
SClockArgs == {0, SCLOCK_T_MAX_VALUE}
\* unsigned long / long of the difference macros and of time_t, DiffBits wide
DMod == 2 ^ DiffBits
ULONG_MAX == DMod - 1
LONG_MAX == (2 ^ (DiffBits - 1)) - 1
LONG_MIN == 0 - (2 ^ (DiffBits - 1))
\* values of time_t passed to settime / held by the external clock
TimeArgs == {0, 5, LONG_MAX}
\* external time getters / setters the application may install
ExtGetters == {"rtc_get"}
ExtSetters == {"rtc_set"}
\* what the external clock shows when the program starts
RtcStart == {7}
\* the statuses of settime: success and failure
OK == 0
FAIL == 0 - 1

VARIABLES
    ticks,          \* __ticks
    sticks,         \* __sticks
    now,            \* __now
    ext_time,       \* _ext_time
    ext_settime,    \* _ext_settime
    crontab,        \* _crontab[]: slot -> [fun, tic]
    freq,           \* what get_freq() returns
    rtc,            \* the external clock the installed hooks read and write
    halted,         \* the CPU trapped inside the handler and never returns
    pc,             \* foreground position: "idle", "add_tic", "rem", "time_ret"
    reg,            \* foreground locals while pc # "idle"
    ev,             \* the last completed call: its name, arguments, result
    nIsr,           \* number of dispatcher invocations so far
    removed,        \* callbacks removed by service_rem and not added since
    hist,           \* the last get_freq() invocations since __now was last set
    lastSet,        \* what settime stored in __now, until __now next changes
    funs,           \* the callbacks the application registers
    din,            \* inputs of the difference macros: <<older, newer>>
    dout,           \* their results
    gap,            \* slot -> dispatcher invocations since its callback last ran
    rebase          \* the last foreground setclock / setsclock: <<c, invocations returned since>>

vars == <<ticks, sticks, now, ext_time, ext_settime, crontab, freq, rtc,
          halted, pc, reg, ev, nIsr, removed, hist, lastSet, funs, din, dout,
          gap, rebase>>

\* a null time_t pointer, and a pointer to an object holding v
NullPtr == <<>>
Ptr(v) == <<v>>

EmptyEntry == [fun |-> NULL, tic |-> 0]
NoEv == [op |-> "none"]
NoReg == [op |-> "none"]
\* gap of a slot whose callback has not run since the slot was last written;
\* <<n>> when n invocations returned since the one that ran it
NoGap == <<>>
\* the count stops here
GapCap == Mod
\* no foreground write of the counter so far
NoBase == <<>>

\* ------------------------------------------------------- SysTick_Callback

\* the handler's view of the data it works on, with the record of its decisions
Cur ==
    [ticks |-> ticks, sticks |-> sticks, now |-> now, tab |-> crontab,
     ext_time |-> ext_time, freq |-> freq, halted |-> FALSE,
     wall |-> <<>>, scans |-> <<>>]

\* mutant: the counter stops at its maximum
IncTicks_NoWrap(st) ==
    [st EXCEPT !.ticks = IF @ = CLOCK_T_MAX_VALUE THEN @ ELSE @ + 1]

\* ++__ticks : unsigned, wraps at CLOCK_T_MAX_VALUE
IncTicks(st) == [st EXCEPT !.ticks = (st.ticks + 1) % Mod]

\* ++__sticks : signed; at SCLOCK_T_MAX_VALUE the increment overflows, which
\* is undefined: the build either wraps to the minimum or traps
IncSticks(st) ==
    IF st.sticks = SCLOCK_T_MAX_VALUE
    THEN {[st EXCEPT !.sticks = SCLOCK_T_MIN_VALUE], [st EXCEPT !.halted = TRUE]}
    ELSE {[st EXCEPT !.sticks = st.sticks + 1]}

\* mutant: the second counted on every tick
WallDue_EveryTick(ext, t, f) == ext = NULL

\* !_ext_time && !(__ticks % get_freq ())
WallDue(ext, t, f) == ext = NULL /\ t % f = 0

\* ++__now : time_t is a long; at LONG_MAX the increment overflows, which is
\* undefined: the build either wraps to LONG_MIN or traps
IncNow(st) ==
    IF st.now = LONG_MAX
    THEN {[st EXCEPT !.now = LONG_MIN], [st EXCEPT !.halted = TRUE]}
    ELSE {[st EXCEPT !.now = st.now + 1]}

\* if (...) ++__now; : the set of outcomes
WallAdvance(st) ==
    LET due == WallDue(st.ext_time, st.ticks, st.freq)
        w   == [st EXCEPT !.wall = <<[tick |-> st.ticks, inc |-> due]>>]
    IN  IF due THEN IncNow(w) ELSE {w}

\* mutant: the period counted from one tick late
CronDue_OffByOne(t, tic) == (t + 1) % tic = 0

\* !(__ticks % _crontab[i].tic), for tic # 0
CronDue(t, tic) == t % tic = 0

\* mutant: every callback returns
Callback_AlwaysReturns(f, st) ==
    IF f \in ClockFuns THEN [st EXCEPT !.ticks = 0] ELSE st

\* _crontab[i].fun () : what the invoked function does to the usys state;
\* a function that never returns keeps the handler, and the CPU, for ever
Callback(f, st) ==
    IF f \in ClockFuns THEN [st EXCEPT !.ticks = 0]
    ELSE IF f \in HangFuns THEN [st EXCEPT !.halted = TRUE]
    ELSE st

Scanned(st, i, inv) ==
    [st EXCEPT !.scans = Append(@, [slot |-> i, fun |-> st.tab[i].fun,
                                     tic |-> st.tab[i].tic,
                                     tick |-> st.ticks, inv |-> inv])]

\* for (i=0 ; i<USYS_CRONTAB_ENTRIES ; ++i) ... : the set of outcomes of the
\* scan from slot i on.  An occupied slot with tic = 0 makes the handler
\* compute __ticks % 0, which is undefined: trap, or either decision.
RECURSIVE CronScan(_, _)
CronScan(i, st) ==
    IF i = USYS_CRONTAB_ENTRIES THEN {st}
    ELSE LET e == st.tab[i]
             skip == CronScan(i + 1, Scanned(st, i, FALSE))
             ret  == Callback(e.fun, Scanned(st, i, TRUE))
             call == IF ret.halted THEN {ret} ELSE CronScan(i + 1, ret)
         IN  IF e.fun = NULL THEN skip
             ELSE IF e.tic = 0
                  THEN {[Scanned(st, i, FALSE) EXCEPT !.halted = TRUE]}
                       \cup skip \cup call
             ELSE IF CronDue(st.ticks, e.tic) THEN call
             ELSE skip

\* mutant: the wall-clock decision taken before the counters are incremented
SysTickRun_StaleWall(st) ==
    UNION { IF w.halted THEN {w}
            ELSE UNION { IF s.halted THEN {s} ELSE CronScan(0, s)
                         : s \in IncSticks(IncTicks(w)) }
            : w \in WallAdvance(st) }

\* the body of the handler, in the order of the code
SysTickRun(st) ==
    UNION { IF s.halted THEN {s}
            ELSE UNION { IF w.halted THEN {w} ELSE CronScan(0, w)
                         : w \in WallAdvance(s) }
            : s \in IncSticks(IncTicks(st)) }

\* the invocation counts after a returning invocation with the scan record sc
GapAfter(g, sc) ==
    [i \in Slots |->
        IF \E k \in 1 .. Len(sc) : sc[k].slot = i /\ sc[k].inv THEN <<0>>
        ELSE IF g[i] = NoGap THEN NoGap
        ELSE IF g[i][1] = GapCap THEN g[i]
        ELSE <<g[i][1] + 1>>]

\* how the invocation ended: it returned, it is stuck in a callback, or the
\* CPU trapped
Outcome(r) ==
    IF ~r.halted THEN "tick"
    ELSE IF r.scans # <<>> /\ r.scans[Len(r.scans)].inv
                         /\ r.scans[Len(r.scans)].fun \in HangFuns THEN "hang"
    ELSE "trap"

\* one more returned invocation since the foreground writes; a setclock
\* from inside the handler leaves no foreground write to count from
Counted(b) == IF b = NoBase THEN NoBase ELSE <<b[1], b[2] + 1>>
RebaseAfter(rb, sc) ==
    [u |-> IF \E k \in 1 .. Len(sc) : sc[k].inv /\ sc[k].fun \in ClockFuns
           THEN NoBase ELSE Counted(rb.u),
     s |-> Counted(rb.s)]

\* the last get_freq() entries of h
LastWindow(h) ==
    IF Len(h) > freq THEN SubSeq(h, Len(h) - freq + 1, Len(h)) ELSE h

\* one invocation of the handler, after which n invocations are on record
SysTickStep(n) ==
    /\ ~halted
    /\ \E r \in SysTickRun(Cur) :
          /\ ticks' = r.ticks
          /\ sticks' = r.sticks
          /\ now' = r.now
          /\ halted' = r.halted
          /\ ev' = [op |-> Outcome(r),
                    pre |-> ticks, nowPre |-> now, ext |-> ext_time,
                    wall |-> r.wall, scans |-> r.scans, since |-> gap]
          /\ hist' = IF r.halted THEN hist
                      ELSE LastWindow(Append(hist, [tick |-> r.wall[1].tick,
                                                    pre |-> now, post |-> r.now]))
          /\ lastSet' = IF r.now = now THEN lastSet ELSE NullPtr
          /\ gap' = IF r.halted THEN gap ELSE GapAfter(gap, r.scans)
          /\ rebase' = IF r.halted THEN rebase ELSE RebaseAfter(rebase, r.scans)
    /\ nIsr' = n
    /\ UNCHANGED <<ext_time, ext_settime, crontab, freq, rtc, pc, reg,
                   removed, funs, din, dout>>

\* the handler, for runs of at most MaxIsr invocations
SysTick_Callback ==
    /\ nIsr < MaxIsr
    /\ SysTickStep(nIsr + 1)

\* the handler, for runs without end: the invocations are counted up to MaxIsr
SysTick_Forever ==
    SysTickStep(IF nIsr < MaxIsr THEN nIsr + 1 ELSE nIsr)

\* ------------------------------------------------------------ cron table

\* mutant: the slot is taken without looking whether it is empty
FirstEmpty_NoCheck(tab, i) == i

\* the first i with !_crontab[i].fun, or USYS_CRONTAB_ENTRIES when none
RECURSIVE FirstEmpty(_, _)
FirstEmpty(tab, i) ==
    IF i = USYS_CRONTAB_ENTRIES THEN i
    ELSE IF tab[i].fun = NULL THEN i
    ELSE FirstEmpty(tab, i + 1)

\* service_add up to and including  _crontab[i].fun = pfun;
service_add_fun(pfun, tic) ==
    /\ ~halted
    /\ pc = "idle"
    /\ LET i == FirstEmpty(crontab, 0)
       IN  IF i = USYS_CRONTAB_ENTRIES
           THEN /\ ev' = [op |-> "service_add", pfun |-> pfun, tic |-> tic,
                          pre |-> crontab]
                /\ UNCHANGED <<crontab, pc, reg, gap>>
           ELSE /\ crontab' = [crontab EXCEPT ![i].fun = pfun]
                /\ pc' = "add_tic"
                /\ reg' = [op |-> "service_add", i |-> i, pfun |-> pfun,
                           tic |-> tic, pre |-> crontab]
                /\ ev' = NoEv
                /\ gap' = [gap EXCEPT ![i] = NoGap]
    /\ removed' = removed \ {pfun}
    /\ UNCHANGED <<ticks, sticks, now, ext_time, ext_settime, freq, rtc,
                   halted, nIsr, hist, lastSet, funs, din, dout, rebase>>

\* service_add from  _crontab[i].tic = tic;  to the return
service_add_tic ==
    /\ ~halted
    /\ pc = "add_tic"
    /\ crontab' = [crontab EXCEPT ![reg.i].tic = reg.tic]
    /\ ev' = [op |-> "service_add", pfun |-> reg.pfun, tic |-> reg.tic,
              pre |-> reg.pre]
    /\ pc' = "idle"
    /\ reg' = NoReg
    /\ gap' = [gap EXCEPT ![reg.i] = NoGap]
    /\ UNCHANGED <<ticks, sticks, now, ext_time, ext_settime, freq, rtc,
                   halted, nIsr, removed, hist, lastSet, funs, din, dout, rebase>>

\* mutant: the loop stops one slot short
RemSlot_SkipLast(tab, i, pfun) ==
    IF tab[i].fun = pfun /\ i < USYS_CRONTAB_ENTRIES - 1
    THEN [tab EXCEPT ![i].fun = NULL] ELSE tab

\* if (_crontab[i].fun == pfun) _crontab[i].fun = (void*)0;
RemSlot(tab, i, pfun) ==
    IF tab[i].fun = pfun THEN [tab EXCEPT ![i].fun = NULL] ELSE tab

\* one turn of the loop of service_rem on slot i, for a call entered with
\* the table pre; after the last slot the call returns
RemTurn(i, pfun, pre) ==
    /\ crontab' = RemSlot(crontab, i, pfun)
    /\ gap' = IF crontab[i].fun = pfun THEN [gap EXCEPT ![i] = NoGap] ELSE gap
    /\ IF i + 1 = USYS_CRONTAB_ENTRIES
       THEN /\ pc' = "idle"
            /\ reg' = NoReg
            /\ ev' = [op |-> "service_rem", pfun |-> pfun, pre |-> pre]
            /\ removed' = IF pfun = NULL THEN removed
                          ELSE removed \cup {pfun}
       ELSE /\ pc' = "rem"
            /\ reg' = [op |-> "service_rem", i |-> i + 1, pfun |-> pfun,
                       pre |-> pre]
            /\ ev' = NoEv
            /\ UNCHANGED removed
    /\ UNCHANGED <<ticks, sticks, now, ext_time, ext_settime, freq, rtc,
                   halted, nIsr, hist, lastSet, funs, din, dout, rebase>>

\* service_rem from its entry through the turn of the loop on slot 0
service_rem(pfun) ==
    /\ ~halted
    /\ pc = "idle"
    /\ RemTurn(0, pfun, crontab)

\* service_rem, the next turn of its loop
service_rem_next ==
    /\ ~halted
    /\ pc = "rem"
    /\ RemTurn(reg.i, reg.pfun, reg.pre)

\* ------------------------------------------------------------ tick counters

\* what the clock functions leave alone besides the two tick counters
ClockFrame == <<now, ext_time, ext_settime, crontab, rtc>>

\* return (clock_t) __ticks;
clock ==
    /\ ~halted
    /\ pc = "idle"
    /\ ev' = [op |-> "clock", ret |-> ticks]
    /\ UNCHANGED <<ticks, sticks, now, ext_time, ext_settime, crontab, freq,
                   rtc, halted, pc, reg, nIsr, removed, hist, lastSet, funs,
                   din, dout, gap, rebase>>

\* mutant: the value is added to the counter
SetTo_Add(old, c) == (old + c) % Mod

\* __ticks = c  (resp. __sticks = c): the counter after the assignment
SetTo(old, c) == c

\* return __ticks = c;  the value of the assignment is the value stored
setclock(c) ==
    /\ ~halted
    /\ pc = "idle"
    /\ ticks' = SetTo(ticks, c)
    /\ ev' = [op |-> "setclock", c |-> c, ret |-> SetTo(ticks, c)]
    /\ rebase' = [rebase EXCEPT !.u = <<c, 0>>]
    /\ UNCHANGED <<sticks, now, ext_time, ext_settime, crontab, freq, rtc,
                   halted, pc, reg, nIsr, removed, hist, lastSet, funs, din,
                   dout, gap>>

\* return (sclock_t) __sticks;
sclock ==
    /\ ~halted
    /\ pc = "idle"
    /\ ev' = [op |-> "sclock", ret |-> sticks]
    /\ UNCHANGED <<ticks, sticks, now, ext_time, ext_settime, crontab, freq,
                   rtc, halted, pc, reg, nIsr, removed, hist, lastSet, funs,
                   din, dout, gap, rebase>>

\* return __sticks = c;
setsclock(c) ==
    /\ ~halted
    /\ pc = "idle"
    /\ sticks' = SetTo(sticks, c)
    /\ ev' = [op |-> "setsclock", c |-> c, ret |-> SetTo(sticks, c)]
    /\ rebase' = [rebase EXCEPT !.s = <<c, 0>>]
    /\ UNCHANGED <<ticks, now, ext_time, ext_settime, crontab, freq, rtc,
                   halted, pc, reg, nIsr, removed, hist, lastSet, funs, din,
                   dout, gap>>

\* -------------------------------------------------------------- wall clock

\* mutant: the argument is stored without the null test
SetHook_Unconditional(hook, f) == f

\* if (f) hook = f;
SetHook(hook, f) == IF f # NULL THEN f ELSE hook

usys_set_rtc_time(f) ==
    /\ ~halted
    /\ pc = "idle"
    /\ ext_time' = SetHook(ext_time, f)
    /\ ev' = [op |-> "usys_set_rtc_time", f |-> f, pre |-> ext_time]
    /\ UNCHANGED <<ticks, sticks, now, ext_settime, crontab, freq, rtc, halted,
                   pc, reg, nIsr, removed, hist, lastSet, funs, din, dout, gap, rebase>>

usys_set_rtc_settime(f) ==
    /\ ~halted
    /\ pc = "idle"
    /\ ext_settime' = SetHook(ext_settime, f)
    /\ ev' = [op |-> "usys_set_rtc_settime", f |-> f, pre |-> ext_settime]
    /\ UNCHANGED <<ticks, sticks, now, ext_time, crontab, freq, rtc, halted,
                   pc, reg, nIsr, removed, hist, lastSet, funs, din, dout, gap, rebase>>

\* mutant: time() answers from __now although a getter is installed
TimeResult_Internal(ext, extRet, n) == n

\* what time() returns: the getter's result when one is installed, else __now
TimeResult(ext, extRet, n) == IF ext # NULL THEN extRet ELSE n

\* time() up to and including  if (timer) *timer = (time_t)__now;
\* (the whole call when it forwards, or when timer is null)
time_store(timer) ==
    /\ ~halted
    /\ pc = "idle"
    /\ IF ext_time # NULL \/ ~timer
       THEN /\ ev' = [op |-> "time", timer |-> timer,
                      via |-> IF ext_time # NULL THEN "ext" ELSE "int",
                      ret |-> TimeResult(ext_time, rtc, now),
                      out |-> IF timer
                              THEN Ptr(TimeResult(ext_time, rtc, now))
                              ELSE NullPtr,
                      extRet |-> rtc, nowPre |-> now]
            /\ UNCHANGED <<pc, reg>>
       ELSE /\ pc' = "time_ret"
            /\ reg' = [op |-> "time", out |-> Ptr(now)]
            /\ ev' = NoEv
    /\ UNCHANGED <<ticks, sticks, now, ext_time, ext_settime, crontab, freq,
                   rtc, halted, nIsr, removed, hist, lastSet, funs, din, dout, gap, rebase>>

\* time() at  return (time_t)__now;
time_ret ==
    /\ ~halted
    /\ pc = "time_ret"
    /\ ev' = [op |-> "time", timer |-> TRUE, via |-> "int",
              ret |-> TimeResult(NULL, rtc, now), out |-> reg.out,
              extRet |-> rtc, nowPre |-> now]
    /\ pc' = "idle"
    /\ reg' = NoReg
    /\ UNCHANGED <<ticks, sticks, now, ext_time, ext_settime, crontab, freq,
                   rtc, halted, nIsr, removed, hist, lastSet, funs, din, dout, gap, rebase>>

\* mutant: settime(NULL) reports success
SettimeResult_AlwaysOk(ext, extStatus, t) ==
    IF ext # NULL THEN extStatus ELSE OK

\* what settime() returns
SettimeResult(ext, extStatus, t) ==
    IF ext # NULL THEN extStatus
    ELSE IF t # NullPtr THEN OK ELSE FAIL

\* what settime() leaves in __now
SettimeNow(ext, t, n) ==
    IF ext # NULL THEN n
    ELSE IF t # NullPtr THEN t[1] ELSE n

\* settime(t); t is null or points to a value.  The installed setter decides
\* its own status; on success it sets the external clock.
settime(t) ==
    /\ ~halted
    /\ pc = "idle"
    /\ \E status \in {OK, FAIL} :
          /\ ext_settime = NULL => status = OK
          /\ now' = SettimeNow(ext_settime, t, now)
          /\ rtc' = IF ext_settime # NULL /\ status = OK /\ t # NullPtr
                    THEN t[1] ELSE rtc
          /\ ev' = [op |-> "settime", t |-> t,
                    via |-> IF ext_settime # NULL THEN "ext" ELSE "int",
                    ret |-> SettimeResult(ext_settime, status, t),
                    extRet |-> status, nowPre |-> now,
                    pre |-> <<ticks, sticks, now, ext_time, ext_settime,
                              crontab, rtc>>]
    /\ hist' = IF ext_settime = NULL /\ t # NullPtr THEN <<>> ELSE hist
    /\ lastSet' = IF ext_settime = NULL /\ t # NullPtr THEN t ELSE lastSet
    /\ UNCHANGED <<ticks, sticks, ext_time, ext_settime, crontab, freq,
                   halted, pc, reg, nIsr, removed, funs, din, dout, gap, rebase>>

\* ------------------------------------------------- wrap-aware differences


\* unsigned long arithmetic: the result reduced modulo ULONG_MAX + 1
USub(a, b) == (a - b) % DMod
UAdd(a, b) == (a + b) % DMod

\* mutant: the wrapped branch without its + 1
CLOCK_DIFF_NoPlusOne(t2, t1) ==
    IF t2 > t1 THEN USub(t2, t1) ELSE USub(ULONG_MAX, USub(t1, t2))

\* _CLOCK_DIFF(_t2_, _t1_) on clock_t operands
CLOCK_DIFF(t2, t1) ==
    IF t2 > t1 THEN USub(t2, t1)
    ELSE UAdd(USub(ULONG_MAX, USub(t1, t2)), 1)

\* the long an unsigned bit pattern stands for, and the pattern of a long
ToSigned(u) == IF u > LONG_MAX THEN u - DMod ELSE u
Wrap(x) == ToSigned(x % DMod)
Fits(x) == LONG_MIN <= x /\ x <= LONG_MAX

\* _SCLOCK_DIFF(_t2_, _t1_) on sclock_t operands, every operation in long.
\* (_SCLOCK_T_MAX_VALUE_ - _SCLOCK_T_MIN_VALUE_) does not fit a long: the
\* compiler folds the constant to its wrapped value.  val is what a build
\* that wraps on signed overflow computes; ovf tells that an operation on
\* the run-time operands overflowed, which is undefined.
SCLOCK_DIFF(t2, t1) ==
    IF t2 > t1
    THEN [val |-> Wrap(t2 - t1), ovf |-> ~Fits(t2 - t1)]
    ELSE LET range == Wrap(LONG_MAX - LONG_MIN)
             d     == t1 - t2
             m     == range - Wrap(d)
             r     == Wrap(m) + 1
         IN  [val |-> Wrap(r),
              ovf |-> ~Fits(d) \/ ~Fits(m) \/ ~Fits(r)]

\* evaluating _CLOCK_DIFF on the pair of samples din
clock_diff ==
    /\ dout = <<>>
    /\ dout' = <<[macro |-> "_CLOCK_DIFF", val |-> CLOCK_DIFF(din[2], din[1]),
                  trap |-> FALSE]>>
    /\ UNCHANGED <<ticks, sticks, now, ext_time, ext_settime, crontab, freq,
                   rtc, halted, pc, reg, ev, nIsr, removed, hist, lastSet,
                   funs, din, gap, rebase>>

\* evaluating _SCLOCK_DIFF on the same bit patterns read as sclock_t: where
\* an operation overflows the build yields the wrapped value or traps
sclock_diff ==
    /\ dout = <<>>
    /\ LET r == SCLOCK_DIFF(ToSigned(din[2]), ToSigned(din[1]))
       IN  \E trap \in BOOLEAN :
              /\ trap => r.ovf
              /\ dout' = <<[macro |-> "_SCLOCK_DIFF",
                            val |-> IF trap THEN 0 ELSE r.val,
                            trap |-> trap]>>
    /\ UNCHANGED <<ticks, sticks, now, ext_time, ext_settime, crontab, freq,
                   rtc, halted, pc, reg, ev, nIsr, removed, hist, lastSet,
                   funs, din, gap, rebase>>

\* -------------------------------------------------------- specifications

\* the state at start-up with the callbacks fs and the frequencies fr at
\* hand, or later during initialisation: the getter installed, the entry e
\* registered in slot 0
InitWith(fs, fr, dw, getter, e) ==
    /\ ticks = 0
    /\ sticks = 0
    /\ now = 0
    /\ ext_time = getter
    /\ ext_settime = NULL
    /\ crontab = [i \in Slots |-> IF i = 0 THEN e ELSE EmptyEntry]
    /\ freq \in fr
    /\ rtc \in RtcStart
    /\ halted = FALSE
    /\ pc = "idle"
    /\ reg = NoReg
    /\ ev = NoEv
    /\ nIsr = 0
    /\ removed = {}
    /\ hist = <<>>
    /\ lastSet = NullPtr
    /\ funs = fs
    /\ din \in (0 .. (dw - 1)) \X (0 .. (dw - 1))
    /\ dout = <<>>
    /\ gap = [i \in Slots |-> NoGap]
    /\ rebase = [u |-> NoBase, s |-> NoBase]

\* the state at start-up: static data zeroed, nothing installed
InitState(fs, fr, dw) == InitWith(fs, fr, dw, NULL, EmptyEntry)

CronNext(tics) ==
    \/ SysTick_Callback
    \/ \E f \in funs \cup {NULL}, t \in tics : service_add_fun(f, t)
    \/ service_add_tic
    \/ \E f \in funs \cup {NULL} : service_rem(f)
    \/ service_rem_next

\* the dispatcher and the cron table, callbacks that only return
Init == InitState(PlainFuns, {3}, 1)
Next == CronNext(TicArgs)
Spec == Init /\ [][Next]_vars

WallNext ==
    \/ SysTick_Callback
    \/ \E f \in ExtGetters \cup {NULL} : usys_set_rtc_time(f)
    \/ \E f \in ExtSetters \cup {NULL} : usys_set_rtc_settime(f)
    \/ \E timer \in BOOLEAN : time_store(timer)
    \/ time_ret
    \/ \E t \in {Ptr(v) : v \in TimeArgs} \cup {NullPtr} : settime(t)

\* the dispatcher and the wall clock, for every frequency of FreqSet
InitWall == InitState({}, FreqSet, 1)
SpecWall == InitWall /\ [][WallNext]_vars

ClockNext ==
    \/ SysTick_Callback
    \/ clock
    \/ \E c \in ClockArgs : setclock(c)
    \/ sclock
    \/ \E c \in SClockArgs : setsclock(c)
    \/ \E f \in ExtSetters : usys_set_rtc_settime(f)

\* the dispatcher and the foreground reads and writes of the tick counters,
\* one tick per second, with cbA registered every 2 ticks
InitClock == InitWith({"cbA"}, {1}, 1, NULL, [fun |-> "cbA", tic |-> 2])
SpecClock == InitClock /\ [][ClockNext]_vars

\* the dispatcher and the cron table with a callback that never returns
InitHang == InitState({"cbA"} \cup HangFuns, {1}, 1)
NextHang == CronNext({2})
SpecHang == InitHang /\ [][NextHang]_vars

\* the dispatcher running without end beside the cron table, the wall clock
\* delegated to an installed getter
LiveNext ==
    \/ SysTick_Forever
    \/ \E f \in funs, t \in TicArgs : service_add_fun(f, t)
    \/ service_add_tic
    \/ \E f \in funs : service_rem(f)
    \/ service_rem_next

InitLive == InitWith({"cbA"}, {1}, 1, "rtc_get", EmptyEntry)
SpecLive == InitLive /\ [][LiveNext]_vars /\ WF_vars(SysTick_Forever)

\* the difference macros on every pair <<older, newer>> of counter samples
InitDiff == InitState({}, {3}, DMod)
DiffNext == clock_diff \/ sclock_diff
SpecDiff == InitDiff /\ [][DiffNext]_vars

\* the same with a callback that calls back into the clock
InitCb == InitState({"cbA"} \cup ClockFuns, {1}, 1)
NextCb == CronNext({2})
SpecCb == InitCb /\ [][NextCb]_vars

\* ------------------------------------------------------------- the claims

\* the value of __ticks right after the ++__ticks of the last invocation
JustInc == (ev.pre + 1) % Mod

\* C1: in every invocation of SysTick_Callback that returns, every slot is
\* scanned once, in order, and the callback of an occupied slot (with a
\* period > 0) is invoked in that invocation if and only if the
\* just-incremented tick is a multiple of the slot's period; an empty slot
\* invokes nothing.  The tick of registration plays no part.
C1_CronFiringRule ==
    ev.op = "tick" =>
        /\ Len(ev.scans) = USYS_CRONTAB_ENTRIES
        /\ \A k \in 1 .. Len(ev.scans) :
              LET s == ev.scans[k]
              IN  /\ s.slot = k - 1
                  /\ s.fun = crontab[k - 1].fun
                  /\ s.tic = crontab[k - 1].tic
                  /\ s.fun = NULL => ~s.inv
                  /\ (s.fun # NULL /\ s.tic > 0)
                        => (s.inv <=> (JustInc % s.tic = 0))

\* a tick after the wrap of the counter on which one occupied slot is due
\* and invoked and another occupied slot is not
C1_Witness ==
    /\ ev.op = "tick"
    /\ ticks = 4
    /\ nIsr > Mod
    /\ \E j, k \in 1 .. Len(ev.scans) :
          /\ ev.scans[j].fun # NULL /\ ev.scans[j].tic = 2 /\ ev.scans[j].inv
          /\ ev.scans[k].fun # NULL /\ ev.scans[k].tic = 3 /\ ~ev.scans[k].inv

\* C2 (as stated): the wall-clock decision and the firing decision of every
\* slot of one invocation are evaluated against the tick before the
\* invocation plus 1, whatever the invoked callbacks do.
C2_SameTickWhateverCallbacksDo ==
    ev.op = "tick" =>
        /\ Len(ev.wall) = 1
        /\ ev.wall[1].tick = JustInc
        /\ \A k \in 1 .. Len(ev.scans) :
              ev.scans[k].fun # NULL => ev.scans[k].tick = JustInc

\* slot k is scanned before any invoked callback has called setclock
BeforeSetclock(k) ==
    \A j \in 1 .. (k - 1) :
        ~(ev.scans[j].inv /\ ev.scans[j].fun \in ClockFuns)

\* C2 (amended): the counters are incremented first, the wall-clock decision
\* always sees the tick before the invocation plus 1, and so does the firing
\* decision of every slot scanned before an invoked callback called setclock.
C2_SameTickUntilSetclock ==
    ev.op = "tick" =>
        /\ Len(ev.wall) = 1
        /\ ev.wall[1].tick = JustInc
        /\ \A k \in 1 .. Len(ev.scans) :
              (ev.scans[k].fun # NULL /\ BeforeSetclock(k))
                  => ev.scans[k].tick = JustInc

\* an invocation in which the last slot's callback called setclock after an
\* occupied slot before it was decided on the just-incremented tick
C2_Witness ==
    /\ ev.op = "tick"
    /\ Len(ev.scans) = USYS_CRONTAB_ENTRIES
    /\ ev.scans[1].fun = "cbA"
    /\ ev.scans[1].tick = JustInc
    /\ JustInc # 0
    /\ ev.scans[Len(ev.scans)].fun \in ClockFuns
    /\ ev.scans[Len(ev.scans)].inv
    /\ ticks = 0

\* C5: a completed service_add(cb, period) with cb non-null has put
\* {cb, period} in the lowest-index slot that was empty and changed no other
\* slot; with no empty slot the table is as it was.  The number of occupied
\* slots never exceeds the capacity.
C5_ServiceAdd ==
    /\ (ev.op = "service_add" /\ ev.pfun # NULL) =>
          LET E == {i \in Slots : ev.pre[i].fun = NULL}
          IN  IF E = {} THEN crontab = ev.pre
              ELSE LET m == CHOOSE i \in E : \A j \in E : i <= j
                   IN  crontab = [ev.pre EXCEPT
                                    ![m] = [fun |-> ev.pfun, tic |-> ev.tic]]
    /\ DOMAIN crontab = Slots
    /\ Cardinality({i \in Slots : crontab[i].fun # NULL}) <= USYS_CRONTAB_ENTRIES

\* an add that found every slot occupied
C5_Witness ==
    /\ ev.op = "service_add"
    /\ ev.pfun # NULL
    /\ \A i \in Slots : ev.pre[i].fun # NULL
    /\ \E i \in Slots : ev.pre[i].fun # ev.pfun

\* C6: service_rem(cb) clears every slot that held cb and leaves the other
\* slots as they were; a callback removed and not added again since is
\* invoked by no later invocation of the dispatcher.
C6_ServiceRem ==
    /\ ev.op = "service_rem" =>
          \A i \in Slots :
             /\ crontab[i].fun = IF ev.pre[i].fun = ev.pfun
                                 THEN NULL ELSE ev.pre[i].fun
             /\ crontab[i].tic = ev.pre[i].tic
    /\ ev.op \in {"tick", "trap"} =>
          \A k \in 1 .. Len(ev.scans) :
             ev.scans[k].inv => ev.scans[k].fun \notin removed
    /\ \A i \in Slots : crontab[i].fun \notin removed

\* a tick on which every period is due, after cbA was removed from two slots
C6_Witness ==
    /\ ev.op = "tick"
    /\ "cbA" \in removed
    /\ ticks = 6
    /\ \A i \in Slots : crontab[i].fun = NULL /\ crontab[i].tic > 0

\* C3 (as stated): in every invocation that returns, __now has grown by exactly 1 if no
\* getter is installed and the just-incremented tick is a multiple of
\* get_freq(), and is unchanged otherwise.  From tick 0 with no getter, __now
\* is unchanged after get_freq() - 1 invocations and one more after
\* get_freq() of them.
C3_WallAdvanceRule ==
    /\ ev.op = "tick" =>
          now = ev.nowPre
                + (IF ev.ext = NULL /\ JustInc % freq = 0 THEN 1 ELSE 0)
    /\ (ext_time = NULL /\ hist # <<>> /\ hist[1].tick = 1) =>
          /\ Len(hist) = freq - 1 => hist[Len(hist)].post = hist[1].pre
          /\ Len(hist) = freq => hist[Len(hist)].post = hist[1].pre + 1

\* the get_freq()-th invocation from tick 0, the first to advance __now
C3_Witness ==
    /\ ev.op = "tick"
    /\ ext_time = NULL
    /\ freq = 3
    /\ nIsr = freq
    /\ ticks = freq
    /\ Len(hist) = freq
    /\ hist[1].tick = 1
    /\ now = ev.nowPre + 1

\* C4 (as stated): with no getter installed and no settime call, every
\* window of get_freq() consecutive invocations advances __now by exactly 1,
\* also across the wrap of the tick counter.
C4_OncePerFrequency ==
    (ext_time = NULL /\ Len(hist) = freq) =>
        hist[Len(hist)].post - hist[1].pre = 1

\* both hooks are installed
Delegated == ext_time # NULL /\ ext_settime # NULL

\* C7: with both hooks installed, time() returns what the getter returned
\* (and the getter is the one handed the timer), settime() returns the
\* setter's status, neither touches __now, and no invocation of the
\* dispatcher changes __now.
C7_Delegation ==
    Delegated =>
        /\ ev.op = "time" =>
              /\ ev.via = "ext"
              /\ ev.ret = ev.extRet
              /\ ev.timer => ev.out = Ptr(ev.extRet)
              /\ now = ev.nowPre
        /\ ev.op = "settime" =>
              /\ ev.via = "ext"
              /\ ev.ret = ev.extRet
              /\ now = ev.nowPre
        /\ ev.op = "tick" => now = ev.nowPre

\* a second boundary passed with both hooks installed, after settime went to
\* the external clock: __now is still what it was at the start
C7_Witness ==
    /\ Delegated
    /\ ev.op = "tick"
    /\ JustInc % freq = 0
    /\ rtc = 5
    /\ now = 0

\* C8: with no setter installed, settime(NULL) returns -1 and changes
\* nothing; settime(t) returns 0 and leaves *t in __now, and a time() with
\* no getter returns (and stores) that value as long as no invocation of the
\* dispatcher has advanced __now since.
C8_Settime ==
    /\ (ev.op = "settime" /\ ext_settime = NULL) =>
          IF ev.t = NullPtr
          THEN /\ ev.ret = FAIL
               /\ <<ticks, sticks, now, ext_time, ext_settime, crontab, rtc>>
                     = ev.pre
          ELSE /\ ev.ret = OK
               /\ now = ev.t[1]
    /\ (ev.op = "time" /\ ev.via = "int" /\ lastSet # NullPtr) =>
          /\ ev.ret = lastSet[1]
          /\ ev.timer => ev.out = lastSet

\* time(&timer) returning the 5 that settime stored, one tick later
C8_Witness ==
    /\ ev.op = "time"
    /\ ev.via = "int"
    /\ ev.timer
    /\ lastSet = Ptr(5)
    /\ ev.ret = 5
    /\ hist # <<>>

\* the number of single increments (wrapping at ULONG_MAX) from a to b
Steps(a, b) == CHOOSE k \in 0 .. (DMod - 1) : (a + k) % DMod = b

\* C9: _CLOCK_DIFF(newer, older) in unsigned arithmetic equals
\* newer - older when newer >= older and MAX - older + newer + 1 otherwise,
\* is never negative, and is the number of increments from older to newer.
C9_ClockDiff ==
    (dout # <<>> /\ dout[1].macro = "_CLOCK_DIFF") =>
        LET older == din[1]
            newer == din[2]
            d == dout[1].val
        IN  /\ d = IF newer >= older THEN newer - older
                   ELSE ULONG_MAX - older + newer + 1
            /\ d >= 0
            /\ d = Steps(older, newer)

\* the 8-bit scenario: older 253, newer 3, difference 6
C9_Witness ==
    /\ DiffBits = 8
    /\ din = <<253, 3>>
    /\ dout # <<>>
    /\ dout[1].macro = "_CLOCK_DIFF"
    /\ dout[1].val = 6

\* C10 (as stated): _SCLOCK_DIFF(newer, older) equals newer - older when
\* newer >= older and (MAX - MIN) - older + newer + 1 otherwise, is never
\* negative, and is the number of increments (wrapping MAX to MIN) from
\* older to newer.
C10_SClockDiff ==
    (dout # <<>> /\ dout[1].macro = "_SCLOCK_DIFF") =>
        LET older == ToSigned(din[1])
            newer == ToSigned(din[2])
            d == dout[1].val
        IN  /\ ~dout[1].trap
            /\ d = IF newer >= older THEN newer - older
                   ELSE (LONG_MAX - LONG_MIN) - older + newer + 1
            /\ d >= 0
            /\ d = Steps(din[1], din[2])

\* the sclock_t that has the bit pattern of the clock_t u
Reinterpret(u) == IF u > SCLOCK_T_MAX_VALUE THEN u - Mod ELSE u

\* C11 (as stated): an invocation leaves the unsigned tick one higher modulo
\* 2^w and the signed tick one higher with wrap from the maximum to the
\* minimum, with no undefined outcome at the boundary; without setclock and
\* setsclock the signed tick is always the two's-complement reading of the
\* unsigned tick.
C11_TicksInLockstep ==
    /\ ev.op \in {"tick", "trap"} => ticks = JustInc
    /\ sticks = Reinterpret(ticks)

\* C14 (as stated): time(timer) with a non-null timer and no external getter
\* stores through timer exactly the value it returns, whatever dispatcher
\* invocations interleave with the call.
C14_StoredEqualsReturned ==
    (ev.op = "time" /\ ev.timer /\ ev.via = "int") => ev.out = Ptr(ev.ret)

\* C15 (as stated): a dispatcher scan that interleaves with a foreground
\* service_add(cb, p) observes the target slot either as it was before the
\* add or as the complete entry {cb, p}.
C15_AtomicRegistration ==
    (ev.op \in {"tick", "trap"} /\ pc = "add_tic" /\ Len(ev.scans) > reg.i) =>
        LET s == ev.scans[reg.i + 1]
        IN  \/ s.fun = reg.pre[reg.i].fun /\ s.tic = reg.pre[reg.i].tic
            \/ s.fun = reg.pfun /\ s.tic = reg.tic

\* C16 (as stated): with every service_add passing a period > 0, the
\* dispatcher never computes tick mod period for an occupied slot whose
\* period is 0.
C16_NoModuloByZero ==
    ev.op \in {"tick", "trap"} =>
        \A k \in 1 .. Len(ev.scans) :
            ev.scans[k].fun # NULL => ev.scans[k].tic # 0

\* C17 (as stated): time() forwards to an external getter if and only if
\* settime() forwards to an external setter, and the dispatcher advances the
\* Seconds counter only when neither forwards.
C17_FullyInternalOrDelegated ==
    /\ (ext_time # NULL) <=> (ext_settime # NULL)
    /\ (ev.op = "tick" /\ ev.wall[1].inc) =>
           (ev.ext = NULL /\ ext_settime = NULL)

\* the state of the program proper (no bookkeeping of the model)
Prog == <<ticks, sticks, now, ext_time, ext_settime, crontab, rtc, halted>>

\* C13: provider registration is monotonic and idempotent.  A setter called
\* with a non-null function installs it and a setter called with NULL leaves
\* the hook as it was; no step of any operation takes an installed hook back
\* to null; installing the function that is already installed changes
\* nothing of the program's state.
C13_RegistrationMonotonic ==
    /\ [](ev.op = "usys_set_rtc_time" =>
             ext_time = (IF ev.f # NULL THEN ev.f ELSE ev.pre))
    /\ [](ev.op = "usys_set_rtc_settime" =>
             ext_settime = (IF ev.f # NULL THEN ev.f ELSE ev.pre))
    /\ [][/\ ext_time # NULL => ext_time' # NULL
          /\ ext_settime # NULL => ext_settime' # NULL
          /\ (ev'.op = "usys_set_rtc_time" /\ ev'.f = ext_time) =>
                 Prog' = Prog
          /\ (ev'.op = "usys_set_rtc_settime" /\ ev'.f = ext_settime) =>
                 Prog' = Prog]_vars

\* a setter was called with NULL on an installed hook, which is still there
C13_Witness ==
    /\ ev.op = "usys_set_rtc_settime"
    /\ ev.f = NULL
    /\ ev.pre # NULL
    /\ ext_settime = ev.pre
    /\ ext_time # NULL

\* C12 (as stated): for an entry registered with period p > 0 and not
\* removed, with no setclock call, exactly p dispatcher invocations elapse
\* between two consecutive invocations of its callback, for every tick value
\* including across the wraparound of the unsigned tick from MAX to 0.
C12_EveryPeriodTicks ==
    ev.op = "tick" =>
        \A k \in 1 .. Len(ev.scans) :
            LET s == ev.scans[k]
            IN  (s.inv /\ s.tic > 0 /\ ev.since[s.slot] # NoGap) =>
                    ev.since[s.slot][1] + 1 = s.tic

\* C18: setclock(c) returns c and sets the unsigned tick to c, and its step
\* leaves the signed tick, the Seconds counter, the hooks and the cron
\* table as they were; a following clock() returns (c + k) mod 2^w, k being
\* the number of dispatcher invocations that returned since the write.
\* setsclock does the same on the signed tick only, sclock() reading c + k
\* in two's complement; the two reads change nothing.
C18_Rebase ==
    /\ [](ev.op = "setclock" => ev.ret = ev.c /\ ticks = ev.c)
    /\ [](ev.op = "setsclock" => ev.ret = ev.c /\ sticks = ev.c)
    /\ []((ev.op = "clock" /\ rebase.u # NoBase) =>
             ev.ret = (rebase.u[1] + rebase.u[2]) % Mod)
    /\ []((ev.op = "sclock" /\ rebase.s # NoBase) =>
             ev.ret = Reinterpret((rebase.s[1] + rebase.s[2]) % Mod))
    /\ [][/\ ev'.op = "setclock" => UNCHANGED <<sticks, ClockFrame>>
          /\ ev'.op = "setsclock" => UNCHANGED <<ticks, ClockFrame>>
          /\ ev'.op \in {"clock", "sclock"} =>
                 UNCHANGED <<ticks, sticks, ClockFrame>>]_vars

\* clock() read 0 one invocation after setclock(MAX), with the signed tick
\* and a non-empty cron table and setter hook untouched by the write
C18_Witness ==
    /\ ev.op = "clock"
    /\ rebase.u = <<CLOCK_T_MAX_VALUE, 1>>
    /\ ev.ret = 0
    /\ sticks # Reinterpret(ticks)
    /\ now > 0
    /\ ext_settime # NULL
    /\ \E i \in Slots : crontab[i].fun # NULL

\* C20: callbacks run synchronously and in increasing slot order inside the
\* dispatcher, with no isolation.  The slots are visited in table order and
\* a callback is invoked only after every callback invoked for a lower slot
\* has returned; an invoked callback that never returns is the last thing
\* the invocation does: no later slot is visited, the handler never returns
\* and the tick counters, the Seconds counter and the dispatch never advance
\* again.
C20_SynchronousInOrder ==
    /\ [](ev.op \in {"tick", "hang"} =>
             /\ \A k \in 1 .. Len(ev.scans) :
                   /\ ev.scans[k].slot = k - 1
                   /\ (ev.scans[k].inv /\ ev.scans[k].fun \in HangFuns) =>
                          (k = Len(ev.scans) /\ ev.op = "hang" /\ halted)
                   /\ ev.scans[k].inv =>
                          \A j \in 1 .. (k - 1) :
                              LET d == ev.scans[j]
                              IN  (d.fun # NULL /\ d.tic > 0
                                     /\ CronDue(d.tick, d.tic)) =>
                                      (d.inv /\ d.fun \notin HangFuns)
             /\ ev.op = "tick" => Len(ev.scans) = USYS_CRONTAB_ENTRIES)
    /\ [][halted => UNCHANGED <<ticks, sticks, now, nIsr, ev>>]_vars

\* the callback of slot 0 never returned on a tick on which the occupied
\* slot 1 was due as well: slot 1 was not visited
C20_Witness ==
    /\ ev.op = "hang"
    /\ halted
    /\ Len(ev.scans) = 1
    /\ crontab[1].fun \in PlainFuns
    /\ crontab[1].tic > 0
    /\ CronDue(ticks, crontab[1].tic)

\* f is registered with a period > 0, the registration complete
Registered(f) ==
    \E i \in Slots : crontab[i].fun = f /\ crontab[i].tic > 0 /\ pc = "idle"

\* the last thing that happened is a dispatcher invocation that invoked f
Fired(f) ==
    /\ ev.op = "tick"
    /\ \E k \in 1 .. Len(ev.scans) : ev.scans[k].fun = f /\ ev.scans[k].inv

\* C19: if a callback is registered with a period > 0 and never removed,
\* then, the dispatcher being invoked again and again for ever, every
\* callback returning and setclock not called, the callback is invoked
\* infinitely often.
C19_RegisteredRunsForever ==
    \A f \in PlainFuns :
        (/\ []<><<SysTick_Forever>>_vars
         /\ <>[]Registered(f))
            => []<>Fired(f)

\* cbA runs again on tick 0, after the wrap of both counters, in a run
\* longer than MaxIsr invocations
C19_Witness ==
    /\ Fired("cbA")
    /\ Registered("cbA")
    /\ ticks = 0
    /\ nIsr = MaxIsr
    /\ \E i \in Slots : ev.since[i] # NoGap

====
